---- MODULE Spec2Model ----
(***************************************************************************)
(* Model of the video A/B study server (app.py).                           *)
(*                                                                         *)
(*   Spec         the /trial and /submit request handlers running          *)
(*                concurrently against the ratings table                   *)
(*   SpecPages    the same with /done and /demographics                    *)
(*   SpecLive     one participant posting without end, under fairness      *)
(*   SpecSession  one browser: the session cookie over the six routes      *)
(*   SpecGen      invocations of generate_trials / pick_video, one         *)
(*                statement of the generator per step                      *)
(*   SpecDet      the same with the stream of one seed recorded            *)
(*   SpecSeed     participant_seed on arbitrary identifiers                *)
(*   SpecLoad     load_manifest on arbitrary documents                     *)
(***************************************************************************)
EXTENDS Integers, Sequences, FiniteSets, TLC

(***************************************************************************)
(* Bounds                                                                  *)
(***************************************************************************)
\* configured trial count N_TRIALS_PER_PARTICIPANT (app.py:25, default 10)
NTrials == 2
\* number of distinct participant identifiers
NumParticipants == 2
\* number of HTTP requests in one behaviour
MaxReq == 3

\* identifiers handed to participant_seed have at most MaxIdLen characters
MaxIdLen == 9

\* manifest.json holds at most MaxSets sets
MaxSets == 2

\* requests one participant has in flight at one time
MaxLive == 2

\* n_trials passed to generate_trials ranges over 1..MaxCount
MaxCount == 2
\* number of generate_trials invocations in one behaviour
MaxCalls == 3

Participants == 1..NumParticipants
Requests == 1..MaxReq

(***************************************************************************)
(* Configuration (app.py:68-89)                                            *)
(***************************************************************************)
METRICS == <<"metric_a", "metric_b", "metric_c", "metric_d">>
Sides == {"A", "B"}
\* the form fields f"{key}_A", f"{key}_B" (app.py:434-435); the score columns
\* of Rating carry the same names (app.py:135-143)
Field(key, side) == key \o "_" \o side
Fields == {Field(METRICS[i], s) : i \in 1..Len(METRICS), s \in Sides}

\* request.form.get(...) returns None for an absent field
None == "<None>"
\* the strings int() accepts, with the integer each denotes
Numerals == ("0" :> 0) @@ ("3" :> 3) @@ ("5" :> 5) @@ ("6" :> 6)
            @@ ("-1" :> (0 - 1))

\* int(raw) raises ValueError for a string that is no integer literal
int_raises(raw) == raw \notin DOMAIN Numerals

\* int(raw) (app.py:438-439)
int(raw) == Numerals[raw]

\* a well-formed form: every field carries the same score
FormAll(raw) == [f \in Fields |-> raw]
\* a form with one field replaced (None: the field is absent)
FormWith(base, key, side, raw) == [base EXCEPT ![Field(key, side)] = raw]

\* the bodies posted to /submit, by name: two that are well formed and four
\* that are not (a missing field, a value above and below the range, a
\* non-integer)
FormBody ==
    [all0 |-> FormAll("0"),
     all5 |-> FormAll("5"),
     missing |-> FormWith(FormAll("3"), "metric_a", "A", None),
     above |-> FormWith(FormAll("3"), "metric_d", "B", "6"),
     below |-> FormWith(FormAll("3"), "metric_b", "A", "-1"),
     nonint |-> FormWith(FormAll("3"), "metric_c", "B", "abc")]

Forms == DOMAIN FormBody

(***************************************************************************)
(* State                                                                   *)
(***************************************************************************)
VARIABLES
    ratings,    \* the rows of table "ratings"
    req,        \* req[r]: the request r, its locals and its position
    served,     \* served[p]: the trial indexes whose page was rendered to p
    manifest,   \* the catalog load_manifest returns
    flags,      \* the two flags the server passes to generate_trials
    frame,      \* the running invocation of generate_trials: arguments, locals
    ncalls,     \* number of invocations started
    watched,    \* the seed whose pseudo-random stream is recorded, or NoSeed
    tape,       \* the part of the watched seed's stream drawn so far
    returned,   \* the results returned so far, while a stream is recorded
    ident,      \* the identifier handed to participant_seed
    seed_out,   \* what participant_seed did with it
    doc,        \* the content of manifest.json
    loaded,     \* what load_manifest did with it
    session,    \* the session cookie of one browser
    demographics \* the rows of table "demographics"

appVars == <<ratings, req, served>>
genVars == <<manifest, flags, frame, ncalls, watched, tape, returned>>
seedVars == <<ident, seed_out>>
loadVars == <<doc, loaded>>
libVars == <<ident, seed_out, doc, loaded, session, demographics>>

vars == <<ratings, req, served, manifest, flags,
         frame, ncalls, watched, tape, returned,
         ident, seed_out, doc, loaded, session, demographics>>

\* the row a handler has not written / the index it has not read
NoRow == 0
NoIdx == 0 - 1

\* the trial a handler has not looked up
NoTrial ==
    [trial_index |-> NoIdx, set |-> "",
     left |-> [label |-> "", method |-> "", video |-> ""],
     right |-> [label |-> "", method |-> "", video |-> ""]]

IdleReq == [kind |-> "none", pc |-> "idle", pid |-> 0, form |-> "none",
            idx |-> NoIdx, t |-> NoTrial, outcome |-> "none",
            wrote |-> NoRow, dup |-> "none", late |-> FALSE]

\* participant_progress (app.py:275-277): number of rows of the participant
participant_progress(rows, p) ==
    Cardinality({x \in rows : x.participant_id = p})

\* is_completed (app.py:284-285)
is_completed(rows, p) == participant_progress(rows, p) >= NTrials

\* has_demographics (app.py:280-281)
has_demographics(rows, p) == \E x \in rows : x.participant_id = p

\* Rating.query.filter_by(participant_id, trial_index).first() (app.py:446)
existing(rows, p, k) ==
    {x \in rows : x.participant_id = p /\ x.trial_index = k}

\* the primary key the table assigns to the next inserted row (app.py:114)
next_id(rows) ==
    IF rows = {} THEN 1
    ELSE 1 + CHOOSE m \in {x.id : x \in rows} : \A x \in rows : x.id <= m

\* the parse loop of submit (app.py:429-443), metric by metric from index i:
\* "abort400", "ValueError" or "ok"
RECURSIVE parse_scores(_, _)
parse_scores(form, i) ==
    IF i > Len(METRICS) THEN "ok"
    ELSE LET raw_A == form[Field(METRICS[i], "A")]
             raw_B == form[Field(METRICS[i], "B")]
         IN  IF raw_A = None \/ raw_B = None THEN "abort400"
             ELSE IF int_raises(raw_A) \/ int_raises(raw_B) THEN "ValueError"
             ELSE IF ~(0 <= int(raw_A) /\ int(raw_A) <= 5
                       /\ 0 <= int(raw_B) /\ int(raw_B) <= 5) THEN "abort400"
             ELSE parse_scores(form, i + 1)

\* scores_A / scores_B after the loop (app.py:442-443)
scores_of(form) == [f \in Fields |-> int(form[f])]

\* the outcome of the parsing loop and, for a well-formed form, the scores
\* dict it builds (app.py:432-443), tabulated per form
parsed == [name \in Forms |-> parse_scores(FormBody[name], 1)]
form_scores == [name \in {n \in Forms : parsed[n] = "ok"} |->
                   scores_of(FormBody[name])]

\* an indexing that does not fail past the end of the list
index_unchecked(idx) == TRUE

\* trials[idx] (app.py:388, 427): a list of NTrials elements raises
\* IndexError for an index past its end
index_in_range(idx) == idx < NTrials

\* a row that counts the trials from 1
Rating_one_based(rows, r, p, idx, t, scores) ==
    [id |-> next_id(rows), participant_id |-> p, trial_index |-> idx + 1,
     set_name |-> t.set,
     method_a |-> t.left.method, method_b |-> t.right.method,
     video_a |-> t.left.video, video_b |-> t.right.video,
     left_label |-> t.left.label, right_label |-> t.right.label,
     scores |-> scores, by |-> r]

\* a row that files the clips under the other side
Rating_clips_crossed(rows, r, p, idx, t, scores) ==
    [id |-> next_id(rows), participant_id |-> p, trial_index |-> idx,
     set_name |-> t.set,
     method_a |-> t.left.method, method_b |-> t.right.method,
     video_a |-> t.right.video, video_b |-> t.left.video,
     left_label |-> t.left.label, right_label |-> t.right.label,
     scores |-> scores, by |-> r]

\* the row built at app.py:450-469 from the trial t and the scores
Rating(rows, r, p, idx, t, scores) ==
    [id |-> next_id(rows), participant_id |-> p, trial_index |-> idx,
     set_name |-> t.set,
     method_a |-> t.left.method, method_b |-> t.right.method,
     video_a |-> t.left.video, video_b |-> t.right.video,
     left_label |-> t.left.label, right_label |-> t.right.label,
     scores |-> scores, by |-> r]

\* the constraint left out of the table definition
uq_participant_trial_absent(rows, row) == TRUE

\* UniqueConstraint("participant_id", "trial_index") (app.py:110-112):
\* the insert of row is refused when a row with the same pair is stored
uq_participant_trial(rows, row) ==
    existing(rows, row.participant_id, row.trial_index) = {}

\* a rollback that also discards the row the insert collided with
rollback_discards(rows, row) ==
    rows \ existing(rows, row.participant_id, row.trial_index)

\* db.session.rollback() (app.py:475): the table after the rollback of the
\* refused insert of row
rollback(rows, row) == rows

\* the commit written as a merge: the new row replaces the stored one
commit_merge(rows, row) ==
    (rows \ existing(rows, row.participant_id, row.trial_index)) \cup {row}

\* a commit that keys the row on its trial_index alone
commit_by_index(rows, row) ==
    {x \in rows : x.trial_index # row.trial_index} \cup {row}

\* db.session.add(row); db.session.commit() with the IntegrityError handler
\* (app.py:471-475): the table after the commit
commit(rows, row) ==
    IF uq_participant_trial(rows, row) THEN rows \cup {row}
    ELSE rollback(rows, row)

(***************************************************************************)
(* Catalogs and the pseudo-random stream                                   *)
(***************************************************************************)
\* A dict is a sequence of <<key, value>> pairs in insertion order.
keys(d) == [i \in DOMAIN d |-> d[i][1]]
get(d, k) == d[CHOOSE i \in DOMAIN d : d[i][1] = k][2]
Range(q) == {q[i] : i \in DOMAIN q}

\* Catalogs load_manifest accepts: at least one set, at least two methods in
\* each set, at least one clip in each method.
\* the example of the specification: a method with a single clip
CatalogExample ==
    << <<"S1", << <<"m1", <<"c1", "c2">> >>, <<"m2", <<"c3">> >> >> >> >>
\* the same clips listed under both methods
CatalogShared ==
    << <<"S1", << <<"m1", <<"x1", "x2">> >>, <<"m2", <<"x1", "x2">> >> >> >> >>
\* two sets, one of them with three methods
CatalogTwoSets ==
    << <<"S1", << <<"m1", <<"a1">> >>, <<"m2", <<"a2">> >>,
                  <<"m3", <<"a3">> >> >> >>,
       <<"S2", << <<"m1", <<"b1">> >>, <<"m2", <<"b2", "b3">> >> >> >> >>

Catalogs == {CatalogExample, CatalogShared, CatalogTwoSets}

\* allow_video_repeats_within_participant and counterbalance_sides: the
\* server passes False and True (app.py:383-384, 422-423)
AppFlags == [allow |-> FALSE, cb |-> TRUE]
Flags == [allow : BOOLEAN, cb : BOOLEAN]

\* the seeds of two participants (participant_seed, app.py:271-272)
Seeds == {0, 1}
NoSeed == 0 - 1

\* A draw is random() < 0.5 (kind 0, values 0 = true and 1 = false) or
\* _randbelow(n) (kind n, values 0..n-1), the primitive under rng.choice,
\* rng.sample and rng.shuffle.
DrawKinds == 0..3
DrawValues(kind) == IF kind = 0 THEN {0, 1} ELSE 0..(kind - 1)
Unknown == 0 - 1
BlankCell == [kind \in DrawKinds |-> Unknown]

\* rng = random.Random(seed) (app.py:195): the start of the stream of seed
Random(seed) == [seed |-> seed, pos |-> 0]

\* the clips of the trials in a list
clips_of(trials) ==
    {trials[i].left.video : i \in DOMAIN trials}
    \cup {trials[i].right.video : i \in DOMAIN trials}

\* a registry kept at module level: it still holds the clips of the calls
\* that returned
used_videos_kept == UNION {clips_of(res.trials) : res \in returned}

\* used_videos = set() (app.py:202)
used_videos_new == {}

NoFrame == [pc |-> "idle"]

\* the frame of generate_trials(m, n_trials, seed, allow, cb) on entry
\* (app.py:188-204)
NewFrame(m, n_trials, seed, allow, cb) ==
    [pc |-> IF Len(keys(m)) = 0 THEN "ValueError" ELSE "choose_set",
     n_trials |-> n_trials, seed |-> seed,
     allow_video_repeats_within_participant |-> allow,
     counterbalance_sides |-> cb,
     rng |-> Random(seed), used_videos |-> used_videos_new,
     trials |-> <<>>, t |-> 0,
     set_name |-> "", pool |-> <<>>, result |-> <<>>,
     method_left |-> "", method_right |-> "",
     vid_left |-> "", vid_right |-> "",
     side |-> "", shuffled |-> <<>>, i |-> 0,
     picks |-> <<>>]

\* the values the next draw of the given kind can take. When no stream is
\* recorded, any value. When one is, a draw from the watched stream takes the
\* recorded value if this point was drawn before with that kind and any value
\* otherwise, and the streams of the other seeds are fixed in advance: each
\* of their draws yields 0.
Draws(kind) ==
    IF watched = NoSeed THEN DrawValues(kind)
    ELSE IF frame.rng.seed # watched THEN {0}
    ELSE IF /\ frame.rng.pos < Len(tape)
            /\ tape[frame.rng.pos + 1][kind] # Unknown
         THEN {tape[frame.rng.pos + 1][kind]}
         ELSE DrawValues(kind)

\* the stream record after the draw of value v
Drawn(kind, v) ==
    IF frame.rng.seed # watched \/ watched = NoSeed THEN tape
    ELSE IF frame.rng.pos < Len(tape)
         THEN [tape EXCEPT ![frame.rng.pos + 1][kind] = v]
         ELSE Append(tape, [BlankCell EXCEPT ![kind] = v])

\* the generator state after one draw
Advance(rng) == [rng EXCEPT !.pos = @ + 1]

\* candidates of pick_video for the side being picked (app.py:218-229)
candidates(m, f) ==
    get(get(m, f.set_name),
        IF f.side = "L" THEN f.method_left ELSE f.method_right)

\* pick_video returns v (app.py:254, 263, 268): the clip goes to vid_left and
\* the right pick starts, or to vid_right and the trial is ready
pick_returns(f, v) ==
    LET m == IF f.side = "L" THEN f.method_left ELSE f.method_right
        g == [f EXCEPT !.picks = Append(@,
                 [set |-> f.set_name, method |-> m, video |-> v,
                  exhausted |-> (f.pc = "fallback")])]
    IN  IF f.side = "L"
        THEN [g EXCEPT !.vid_left = v, !.side = "R", !.pc = "pick"]
        ELSE [g EXCEPT !.vid_right = v, !.pc = "append"]

\* an exhausted pool treated as an error
on_exhausted_raise == "ValueError"

\* app.py:265: "All used; fallback": the scan found nothing and pick_video
\* goes on to the fallback draw
on_exhausted == "fallback"

\* a sample that leaves the drawn entry in the pool
sample_pool_kept(pool, j, n, i) == pool

\* rng.sample (app.py:215) after drawing position j in iteration i: the last
\* unselected entry of the pool moves into the vacancy
sample_pool(pool, j, n, i) == [pool EXCEPT ![j + 1] = pool[n - i]]

\* a scan that takes the head of the shuffled list whether used or not
first_unused_any(shuffled, used) == {1}

\* the scan of app.py:260-263: the position of the first entry of shuffled
\* that is not in used ({} when there is none)
first_unused(shuffled, used) ==
    LET free == {k \in DOMAIN shuffled : shuffled[k] \notin used}
    IN  IF free = {} THEN {}
        ELSE {CHOOSE k \in free : \A l \in free : k <= l}

\* a counterbalance that exchanges the methods and leaves the clips in place
swap_methods_only(f) ==
    [f EXCEPT !.method_left = f.method_right, !.method_right = f.method_left]

\* app.py:234-235
swap_sides(f) ==
    [f EXCEPT !.method_left = f.method_right, !.method_right = f.method_left,
              !.vid_left = f.vid_right, !.vid_right = f.vid_left]

\* the trial appended at app.py:237-242
Trial(f) ==
    [trial_index |-> f.t, set |-> f.set_name,
     left |-> [label |-> "A", method |-> f.method_left, video |-> f.vid_left],
     right |-> [label |-> "B", method |-> f.method_right,
                video |-> f.vid_right]]

\* The statements of generate_trials and pick_video as functions of the
\* catalog, the frame and the value drawn.
\* app.py:207-212 with draw j
choose_set(m, f, j) ==
    LET set_name == keys(m)[j + 1]
        method_names == keys(get(m, set_name))
    IN  [f EXCEPT !.rng = Advance(@), !.set_name = set_name,
                  !.pool = method_names, !.result = <<>>,
                  !.pc = IF Len(method_names) < 2 THEN "ValueError"
                         ELSE "sample"]

\* app.py:215, one iteration of rng.sample(method_names, 2) with draw j
sample(f, j) ==
    LET n == Len(f.pool)
        i == Len(f.result)
        result == Append(f.result, f.pool[j + 1])
        pool == sample_pool(f.pool, j, n, i)
    IN  IF i + 1 < 2
        THEN [f EXCEPT !.rng = Advance(@), !.pool = pool, !.result = result]
        ELSE [f EXCEPT !.rng = Advance(@), !.pool = pool, !.result = result,
                       !.method_left = result[1], !.method_right = result[2],
                       !.side = "L", !.pc = "pick"]

\* app.py:253-254 with draw j
pick_repeat(m, f, j) ==
    pick_returns([f EXCEPT !.rng = Advance(@)], candidates(m, f)[j + 1])

\* app.py:258-259, before the first iteration of the shuffle
pick_start(m, f) ==
    [f EXCEPT !.shuffled = candidates(m, f),
              !.i = Len(candidates(m, f)) - 1,
              !.pc = IF Len(candidates(m, f)) - 1 >= 1 THEN "shuffle" ELSE "scan"]

\* app.py:259, one iteration of rng.shuffle with draw j
shuffle(f, j) ==
    [f EXCEPT !.rng = Advance(@),
              !.shuffled = [@ EXCEPT ![f.i + 1] = f.shuffled[j + 1],
                                     ![j + 1] = f.shuffled[f.i + 1]],
              !.i = @ - 1,
              !.pc = IF f.i - 1 >= 1 THEN "shuffle" ELSE "scan"]

\* app.py:260-265
scan(f) ==
    LET found == first_unused(f.shuffled, f.used_videos)
    IN  IF found = {} THEN [f EXCEPT !.pc = on_exhausted]
        ELSE LET k == CHOOSE k \in found : TRUE
             IN  pick_returns([f EXCEPT !.used_videos = @ \cup {f.shuffled[k]}],
                              f.shuffled[k])

\* app.py:266-268 with draw j
fallback(m, f, j) ==
    LET v == candidates(m, f)[j + 1]
    IN  pick_returns([f EXCEPT !.rng = Advance(@),
                               !.used_videos = @ \cup {v}], v)

\* the loop goes on with trial t + 1 or ends (app.py:205, 244)
appended(f) ==
    [f EXCEPT !.trials = Append(@, Trial(f)), !.t = @ + 1,
              !.pc = IF f.t + 1 < f.n_trials THEN "choose_set" ELSE "done"]

\* app.py:233-242 with the coin c (0: below 0.5)
counterbalance(f, c) ==
    LET g == [f EXCEPT !.rng = Advance(@)]
    IN  appended(IF c = 0 THEN swap_sides(g) ELSE g)

\* The value a generator yields at a draw of the given kind. random.Random(seed)
\* is a function of the seed and of the draws made so far (app.py:195); the
\* Mersenne Twister is not reproduced, the stream of each seed is one fixed
\* sequence and the streams of seeds of different parity differ.
randbelow(rng, kind) == (rng.seed + rng.pos) % Cardinality(DrawValues(kind))

\* the next statement of generate_trials or pick_video, run on frame f over
\* the catalog m with the draws of f.rng
step(m, f) ==
    CASE f.pc = "choose_set" ->
             choose_set(m, f, randbelow(f.rng, Len(keys(m))))
      [] f.pc = "sample" ->
             sample(f, randbelow(f.rng, Len(f.pool) - Len(f.result)))
      [] f.pc = "pick" ->
             IF f.allow_video_repeats_within_participant
             THEN pick_repeat(m, f, randbelow(f.rng, Len(candidates(m, f))))
             ELSE pick_start(m, f)
      [] f.pc = "shuffle" -> shuffle(f, randbelow(f.rng, f.i + 1))
      [] f.pc = "scan" -> scan(f)
      [] f.pc = "fallback" ->
             fallback(m, f, randbelow(f.rng, Len(candidates(m, f))))
      [] f.pc = "append" ->
             IF f.counterbalance_sides
             THEN counterbalance(f, randbelow(f.rng, 0))
             ELSE appended(f)

\* the statements run from frame f to the return or the exception
RECURSIVE run(_, _)
run(m, f) ==
    IF f.pc \in {"done", "ValueError"} THEN f ELSE run(m, step(m, f))

\* generate_trials(manifest, n_trials, seed, allow, cb) (app.py:188-244) as
\* a function: the list it returns
generate_trials(m, n_trials, seed, allow, cb) ==
    run(m, NewFrame(m, n_trials, seed, allow, cb)).trials

(***************************************************************************)
(* Identifiers and seeds                                                   *)
(***************************************************************************)
\* A string is a sequence of characters.
\* hexadecimal digits, with the value of each
HexDigits == ("0" :> 0) @@ ("1" :> 1) @@ ("2" :> 2) @@ ("7" :> 7)
\* the characters identifiers are made of here: a hexadecimal digit, a letter
\* that is none, and a sign
IdChars == {"7", "g", "-"}

\* the value of a string of hexadecimal digits, most significant first
RECURSIVE hex_value(_)
hex_value(s) ==
    IF s = <<>> THEN 0
    ELSE 16 * hex_value(SubSeq(s, 1, Len(s) - 1)) + HexDigits[s[Len(s)]]

ValueError == [raised |-> "ValueError", value |-> 0]
Returns(v) == [raised |-> "none", value |-> v]
NotCalled == [raised |-> "not called", value |-> 0]

\* int(s, 16) on strings over IdChars and the digits: an optional sign, then
\* at least one digit and nothing but digits; anything else is a ValueError
\* (the blanks, underscores and 0x prefix int() also accepts are not among
\* the characters)
int16(s) ==
    LET signed == s # <<>> /\ s[1] \in {"-", "+"}
        digits == IF signed THEN Tail(s) ELSE s
    IN  IF digits = <<>> \/ \E i \in DOMAIN digits : digits[i] \notin DOMAIN HexDigits
        THEN ValueError
        ELSE IF signed /\ s[1] = "-" THEN Returns(0 - hex_value(digits))
        ELSE Returns(hex_value(digits))

\* participant_id[:8]: a slice does not fail on a shorter string
slice8(s) == SubSeq(s, 1, IF Len(s) < 8 THEN Len(s) ELSE 8)

\* participant_seed (app.py:271-272)
participant_seed(participant_id) == int16(slice8(participant_id))

\* uuid.uuid4().hex (app.py:308): the n-th identifier issued, a string of
\* hexadecimal digits longer than 8
HexChars == <<"1", "2", "7", "0">>
uuid4_hex(n) == <<"0", "0", "0", "0", "0", "0", "0", HexChars[n], "7", "7">>

\* a session cookie holds participant_id and seed, or lacks them
NoId == 0
EmptySession == [participant_id |-> NoId, seed |-> NoSeed]

\* the session of participant p before /begin has stored a seed in it
cookie(p) == [participant_id |-> p, seed |-> NoSeed]

\* participant_seed(participant_id) of the identifiers the server issues,
\* tabulated per identifier
seed_of == [p \in Participants |-> participant_seed(uuid4_hex(p)).value]

\* session.get("seed", participant_seed(participant_id)) (app.py:378, 417)
session_seed(s) ==
    IF s.seed # NoSeed THEN s.seed ELSE seed_of[s.participant_id]

\* the seeds of the identifiers the server issues
SessionSeeds == {seed_of[p] : p \in Participants}

\* generate_trials(manifest, N_TRIALS_PER_PARTICIPANT, seed, False, True),
\* the call of the handlers, tabulated per catalog and seed
generated ==
    [m \in Catalogs, seed \in SessionSeeds |->
        generate_trials(m, NTrials, seed, FALSE, TRUE)]

\* trials = generate_trials(...) in the handlers of /trial and /submit
\* (app.py:376-385, 416-424)
trials_of(s) == generated[manifest, session_seed(s)]

\* t = trials[idx] (app.py:388, 427) where the list has the index
element(trials, idx) ==
    IF idx + 1 \in DOMAIN trials THEN trials[idx + 1] ELSE NoTrial

(***************************************************************************)
(* manifest.json and load_manifest                                         *)
(***************************************************************************)
\* A JSON value is a dict (items: its <<key, value>> pairs in order), a list
\* (items: its entries) or something else, here a string.
JDict(items) == [type |-> "dict", items |-> items]
JList(items) == [type |-> "list", items |-> items]
JStr == [type |-> "str", items |-> <<>>]
\* manifest.json not read
NoDoc == [type |-> "none", items |-> <<>>]

\* the files under STATIC_DIR: c1 and c2 exist, c3 does not
FilesPresent == {"c1", "c2"}
\* os.path.isfile(os.path.join(STATIC_DIR, rel_path)) (app.py:179-180)
isfile_unchecked(rel_path) == TRUE
isfile(rel_path) == rel_path \in FilesPresent

SetNames == <<"S1", "S2", "S3", "S4">>
\* a set holds no method, one or two
MethodNames == <<"m1", "m2">>
\* what manifest.json can hold: for a method, something that is no list, an
\* empty list, a list of existing clips, a list with a missing clip
VidDocs == {JStr, JList(<<>>), JList(<<"c1", "c2">>), JList(<<"c1", "c3">>)}
MethodDocs ==
    {JStr} \cup
    UNION {{JDict([i \in 1..n |-> <<MethodNames[i], v[i]>>]) :
               v \in [1..n -> VidDocs]} : n \in 0..Len(MethodNames)}
Docs ==
    {JStr} \cup
    UNION {{JDict([i \in 1..n |-> <<SetNames[i], m[i]>>]) :
               m \in [1..n -> MethodDocs]} : n \in 0..MaxSets}

\* the loop over vids (app.py:178-183)
RECURSIVE check_paths(_, _)
check_paths(vids, k) ==
    IF k > Len(vids) THEN "ok"
    ELSE IF ~isfile(vids[k]) THEN "FileNotFoundError"
    ELSE check_paths(vids, k + 1)

\* the loop over methods.items() (app.py:174-183)
RECURSIVE check_methods(_, _)
check_methods(methods, j) ==
    IF j > Len(methods) THEN "ok"
    ELSE LET vids == methods[j][2]
         IN  IF vids.type # "list" \/ Len(vids.items) = 0 THEN "ValueError"
             ELSE IF check_paths(vids.items, 1) # "ok"
                  THEN check_paths(vids.items, 1)
             ELSE check_methods(methods, j + 1)

\* the loop over manifest.items() (app.py:170-183)
RECURSIVE check_sets(_, _)
check_sets(sets, i) ==
    IF i > Len(sets) THEN "ok"
    ELSE LET methods == sets[i][2]
         IN  IF methods.type # "dict" \/ Len(methods.items) < 2
             THEN "ValueError"
             ELSE IF check_methods(methods.items, 1) # "ok"
                  THEN check_methods(methods.items, 1)
             ELSE check_sets(sets, i + 1)

\* load_manifest (app.py:163-185): "ok" when it returns, else the exception
load_manifest(d) ==
    IF d.type # "dict" \/ Len(d.items) < 1 THEN "ValueError"
    ELSE check_sets(d.items, 1)

\* the dict load_manifest returns (app.py:185), as the generator reads it
catalog_of(d) ==
    [i \in DOMAIN d.items |->
        <<d.items[i][1],
          [j \in DOMAIN d.items[i][2].items |->
              <<d.items[i][2].items[j][1], d.items[i][2].items[j][2].items>>]>>]

\* the state of the parts that take no part in a specification
LibIdle ==
    /\ ident = <<>>
    /\ seed_out = NotCalled
    /\ doc = NoDoc
    /\ loaded = "not called"
    /\ session = EmptySession
    /\ demographics = {}

(***************************************************************************)
(* Requests                                                                *)
(***************************************************************************)
Init ==
    /\ ratings = {}
    /\ req = [r \in Requests |-> IdleReq]
    /\ served = [p \in Participants |-> {}]
    /\ manifest = CatalogExample
    /\ flags = AppFlags
    /\ frame = NoFrame
    /\ ncalls = 0
    /\ watched = NoSeed
    /\ tape = <<>>
    /\ returned = {}
    /\ LibIdle

\* requests are numbered in the order they arrive
Arrives(r) ==
    /\ req[r].pc = "idle"
    /\ \A q \in Requests : q < r => req[q].pc # "idle"

\* ensure_participant (app.py:304-308): a session without participant_id
\* gets a fresh one; identifiers are numbered in the order they are issued
ensure_participant(p) ==
    \A q \in Participants : q < p => \E r \in Requests : req[r].pid = q

\* GET /trial arrives with the session of participant p and runs up to the
\* completion check (app.py:367-374)
TrialGate(r, p) ==
    /\ Arrives(r)
    /\ ensure_participant(p)
    /\ LET q == [IdleReq EXCEPT !.kind = "trial", !.pid = p]
       IN  IF is_completed(ratings, p)
           THEN req' = [req EXCEPT ![r] = [q EXCEPT !.pc = "done",
                                             !.outcome = "redirect_done"]]
           ELSE req' = [req EXCEPT ![r] = [q EXCEPT !.pc = "progress"]]
    /\ UNCHANGED <<ratings, served, genVars, libVars>>

\* POST /submit arrives with the session of participant p and runs up to the
\* completion check (app.py:407-414); the form was filled in on the page of
\* trial index k, a page that was rendered to p (NoIdx: the post was not made
\* from a trial page)
SubmitGate(r, p, k) ==
    /\ Arrives(r)
    /\ ensure_participant(p)
    /\ k \in served[p] \cup {NoIdx}
    /\ LET q == [IdleReq EXCEPT !.kind = "submit", !.pid = p,
                                !.late = (existing(ratings, p, k) # {})]
       IN  IF is_completed(ratings, p)
           THEN req' = [req EXCEPT ![r] = [q EXCEPT !.pc = "done",
                                             !.outcome = "redirect_done"]]
           ELSE req' = [req EXCEPT ![r] = [q EXCEPT !.pc = "progress"]]
    /\ UNCHANGED <<ratings, served, genVars, libVars>>

\* app.py:387-405: idx = participant_progress(...); t = trials[idx]; render
TrialProgress(r) ==
    /\ req[r].pc = "progress"
    /\ req[r].kind = "trial"
    /\ LET idx == participant_progress(ratings, req[r].pid)
           trials == trials_of(cookie(req[r].pid))
       IN  IF index_in_range(idx)
           THEN /\ req' = [req EXCEPT ![r].pc = "done", ![r].idx = idx,
                                      ![r].t = element(trials, idx),
                                      ![r].outcome = "render_trial"]
                /\ served' = [served EXCEPT ![req[r].pid] = @ \cup {idx}]
           ELSE /\ req' = [req EXCEPT ![r].pc = "done", ![r].idx = idx,
                                      ![r].outcome = "IndexError"]
                /\ UNCHANGED served
    /\ UNCHANGED <<ratings, genVars, libVars>>

\* app.py:426-443: idx = participant_progress(...); t = trials[idx]; then the
\* scores are parsed. The form of the request is drawn here, where the handler
\* reads it (request.form.get, app.py:434); a request that fails before it
\* leaves its form unread.
SubmitProgress(r, form) ==
    /\ req[r].pc = "progress"
    /\ req[r].kind = "submit"
    /\ LET idx == participant_progress(ratings, req[r].pid)
           trials == trials_of(cookie(req[r].pid))
           res == parsed[form]
       IN  IF ~index_in_range(idx)
           THEN req' = [req EXCEPT ![r].pc = "done", ![r].idx = idx,
                                   ![r].outcome = "IndexError"]
           ELSE IF res # "ok"
           THEN req' = [req EXCEPT ![r].pc = "done", ![r].idx = idx,
                                   ![r].t = element(trials, idx),
                                   ![r].form = form, ![r].outcome = res]
           ELSE req' = [req EXCEPT ![r].pc = "exists", ![r].idx = idx,
                                   ![r].t = element(trials, idx),
                                   ![r].form = form]
    /\ UNCHANGED <<ratings, served, genVars, libVars>>

\* app.py:446-448
SubmitExists(r) ==
    /\ req[r].pc = "exists"
    /\ IF existing(ratings, req[r].pid, req[r].idx) # {}
       THEN req' = [req EXCEPT ![r].pc = "done", ![r].dup = "existing",
                               ![r].outcome = "redirect_trial"]
       ELSE req' = [req EXCEPT ![r].pc = "commit"]
    /\ UNCHANGED <<ratings, served, genVars, libVars>>

\* app.py:450-477
SubmitCommit(r) ==
    /\ req[r].pc = "commit"
    /\ LET row == Rating(ratings, r, req[r].pid, req[r].idx, req[r].t,
                         form_scores[req[r].form])
       IN  /\ ratings' = commit(ratings, row)
           /\ req' = [req EXCEPT ![r].pc = "done",
                                 ![r].outcome = "redirect_trial",
                                 ![r].wrote = IF row \in ratings'
                                              THEN row.id ELSE NoRow,
                                 ![r].dup = IF row \in ratings' THEN "none"
                                            ELSE "IntegrityError"]
    /\ UNCHANGED <<served, genVars, libVars>>

Next ==
    \/ \E r \in Requests : Arrives(r) /\ \E p \in Participants : TrialGate(r, p)
    \/ \E r \in Requests :
          Arrives(r) /\ \E p \in Participants,
                           k \in 0..(NTrials - 1) \cup {NoIdx} :
                            SubmitGate(r, p, k)
    \/ \E r \in Requests : TrialProgress(r)
    \/ \E r \in Requests, form \in Forms : SubmitProgress(r, form)
    \/ \E r \in Requests : SubmitExists(r)
    \/ \E r \in Requests : SubmitCommit(r)

Spec == Init /\ [][Next]_vars

(***************************************************************************)
(* The pages of the study: /done and /demographics beside /trial, /submit  *)
(***************************************************************************)
\* GET /done (app.py:480-482): the page is rendered
DonePage(r, p) ==
    /\ Arrives(r)
    /\ ensure_participant(p)
    /\ req' = [req EXCEPT ![r] = [IdleReq EXCEPT !.kind = "done", !.pid = p,
                                     !.pc = "done", !.outcome = "render_done"]]
    /\ UNCHANGED <<ratings, served, genVars, libVars>>

\* GET or POST /demographics arrives and runs up to the completion check
\* (app.py:329-334)
DemographicsGate(r, p, method) ==
    /\ Arrives(r)
    /\ ensure_participant(p)
    /\ LET q == [IdleReq EXCEPT !.kind = "demographics_" \o method, !.pid = p]
       IN  IF is_completed(ratings, p)
           THEN req' = [req EXCEPT ![r] = [q EXCEPT !.pc = "done",
                                             !.outcome = "redirect_done"]]
           ELSE req' = [req EXCEPT ![r] = [q EXCEPT !.pc = "answered"]]
    /\ UNCHANGED <<ratings, served, genVars, libVars>>

\* GET past the gate (app.py:337-338, 361-364): the form is rendered unless
\* it was answered
DemographicsGet(r) ==
    /\ req[r].pc = "answered"
    /\ req[r].kind = "demographics_GET"
    /\ req' = [req EXCEPT ![r].pc = "done",
                          ![r].outcome =
                              IF has_demographics(demographics, req[r].pid)
                              THEN "redirect_trial"
                              ELSE "render_demographics"]
    /\ UNCHANGED <<ratings, served, genVars, libVars>>

\* POST past the gate (app.py:340-359): the row has no primary key, so
\* db.session.merge(row) adds it as a new row, and the commit inserts it
\* unless the unique participant_id (app.py:153) refuses it, which raises
\* IntegrityError out of the handler
DemographicsPost(r) ==
    /\ req[r].pc = "answered"
    /\ req[r].kind = "demographics_POST"
    /\ IF has_demographics(demographics, req[r].pid)
       THEN /\ req' = [req EXCEPT ![r].pc = "done",
                                  ![r].outcome = "IntegrityError"]
            /\ UNCHANGED demographics
       ELSE /\ req' = [req EXCEPT ![r].pc = "done",
                                  ![r].outcome = "redirect_trial"]
            /\ demographics' = demographics \cup
                                   {[participant_id |-> req[r].pid, by |-> r]}
    /\ UNCHANGED <<ratings, served, genVars,
                   ident, seed_out, doc, loaded, session>>

\* the requests of Next, with well-formed scores, and the other pages
NextPages ==
    \/ \E r \in Requests : Arrives(r) /\ \E p \in Participants : TrialGate(r, p)
    \/ \E r \in Requests :
          Arrives(r) /\ \E p \in Participants : SubmitGate(r, p, NoIdx)
    \/ \E r \in Requests : TrialProgress(r)
    \/ \E r \in Requests : SubmitProgress(r, "all0")
    \/ \E r \in Requests : SubmitExists(r)
    \/ \E r \in Requests : SubmitCommit(r)
    \/ \E r \in Requests : Arrives(r) /\ \E p \in Participants : DonePage(r, p)
    \/ \E r \in Requests :
          Arrives(r) /\ \E p \in Participants, method \in {"GET", "POST"} :
                            DemographicsGate(r, p, method)
    \/ \E r \in Requests : DemographicsGet(r)
    \/ \E r \in Requests : DemographicsPost(r)

SpecPages == Init /\ [][NextPages]_vars

(***************************************************************************)
(* A participant who keeps submitting: requests without end, under fair     *)
(* scheduling of the handlers                                              *)
(***************************************************************************)
\* the forms posted: a well-formed one and one the validation rejects
LiveForms == {"all0", "missing"}

\* the response of a finished request has been sent (app.py:405, 477): the
\* server can take another request in its place
Retire(r) ==
    /\ req[r].pc = "done"
    /\ req' = [req EXCEPT ![r] = IdleReq]
    /\ UNCHANGED <<ratings, served, genVars, libVars>>

\* the requests the participant has in flight at one time
Live == 1..MaxLive

\* a step of the handler of request r
HandlerStep(r) ==
    \/ TrialProgress(r)
    \/ \E form \in LiveForms : SubmitProgress(r, form)
    \/ SubmitExists(r)
    \/ SubmitCommit(r)
    \/ Retire(r)

\* the participant posts a form to /submit
Submits1 == \E r \in Live : SubmitGate(r, 1, NoIdx)

\* the handler reads a well-formed form the participant posted
ReadsValid1 == \E r \in Live : SubmitProgress(r, "all0")

\* the requests of one participant: the requests of other participants do
\* not touch its rows
NextLive ==
    \/ \E r \in Live : TrialGate(r, 1)
    \/ \E r \in Live : SubmitGate(r, 1, NoIdx)
    \/ \E r \in Live : TrialProgress(r)
    \/ \E r \in Live, form \in LiveForms : SubmitProgress(r, form)
    \/ \E r \in Live : SubmitExists(r)
    \/ \E r \in Live : SubmitCommit(r)
    \/ \E r \in Live : Retire(r)

\* The server keeps running the handlers of the requests it accepted (no
\* handler waits for another): weak fairness of the handler steps. The
\* participant keeps posting forms and keeps posting well-formed ones: strong
\* fairness of those two inputs.
Fairness ==
    /\ WF_vars(\E r \in Live : HandlerStep(r))
    /\ SF_vars(Submits1)
    /\ SF_vars(ReadsValid1)

SpecLive == Init /\ [][NextLive]_vars /\ Fairness

(***************************************************************************)
(* One browser: the session cookie and the requests made with it, one      *)
(* after the other, each handler run from the request to the response      *)
(***************************************************************************)
\* the identifiers issued so far: those of the requests served
issued == {req[r].pid : r \in Requests} \ {NoId}

\* ensure_participant (app.py:304-308) on the session s of the request: a
\* session without participant_id gets the next identifier
before_request(s) ==
    IF s.participant_id # NoId THEN s
    ELSE [s EXCEPT !.participant_id = Cardinality(issued) + 1]

\* a clear that removes the identifier and leaves the rest
session_clear_id(s) == [s EXCEPT !.participant_id = NoId]

\* session.clear() (app.py:492)
session_clear(s) == EmptySession

\* the record of a request served under session s
Answer(kind, s, outcome) ==
    [IdleReq EXCEPT !.kind = kind, !.pid = s.participant_id, !.pc = "done",
                    !.outcome = outcome]

\* the session the browser holds after a handler raised: the response of the
\* error handler carries the session s of the request, and a server that
\* propagates the exception sends none
AfterError(s) == {s, session}

\* GET / (app.py:311-313)
StartPage(r) ==
    /\ Arrives(r)
    /\ LET s == before_request(session)
       IN  /\ s.participant_id \in Participants
           /\ session' = s
           /\ req' = [req EXCEPT ![r] = Answer("start", s, "render_start")]
    /\ UNCHANGED <<ratings, served, demographics, genVars, seedVars, loadVars>>

\* POST /begin (app.py:315-327)
Begin(r) ==
    /\ Arrives(r)
    /\ LET s == before_request(session)
           participant_id == s.participant_id
       IN  /\ participant_id \in Participants
           /\ IF is_completed(ratings, participant_id)
              THEN /\ session' = s
                   /\ req' = [req EXCEPT
                                ![r] = Answer("begin", s, "redirect_done")]
              ELSE /\ session' =
                        [s EXCEPT !.seed =
                            participant_seed(uuid4_hex(participant_id)).value]
                   /\ req' = [req EXCEPT ![r] = Answer("begin", s,
                                IF has_demographics(demographics,
                                                    participant_id)
                                THEN "redirect_trial"
                                ELSE "redirect_demographics")]
    /\ UNCHANGED <<ratings, served, demographics, genVars, seedVars, loadVars>>

\* GET or POST /demographics (app.py:329-364)
Demographics(r, method) ==
    /\ Arrives(r)
    /\ LET s == before_request(session)
           participant_id == s.participant_id
           kind == "demographics_" \o method
       IN  /\ participant_id \in Participants
           /\ IF is_completed(ratings, participant_id)
              THEN /\ session' = s
                   /\ req' = [req EXCEPT ![r] = Answer(kind, s, "redirect_done")]
                   /\ UNCHANGED demographics
              ELSE IF method = "GET"
              THEN /\ session' = s
                   /\ req' = [req EXCEPT ![r] = Answer(kind, s,
                                IF has_demographics(demographics,
                                                    participant_id)
                                THEN "redirect_trial"
                                ELSE "render_demographics")]
                   /\ UNCHANGED demographics
              ELSE IF has_demographics(demographics, participant_id)
              THEN /\ session' \in AfterError(s)
                   /\ req' = [req EXCEPT
                                ![r] = Answer(kind, s, "IntegrityError")]
                   /\ UNCHANGED demographics
              ELSE /\ session' = s
                   /\ req' = [req EXCEPT
                                ![r] = Answer(kind, s, "redirect_trial")]
                   /\ demographics' = demographics \cup
                          {[participant_id |-> participant_id, by |-> r]}
    /\ UNCHANGED <<ratings, served, genVars, seedVars, loadVars>>

\* GET /trial (app.py:367-405)
TrialPage(r) ==
    /\ Arrives(r)
    /\ LET s == before_request(session)
           participant_id == s.participant_id
           idx == participant_progress(ratings, participant_id)
       IN  /\ participant_id \in Participants
           /\ IF is_completed(ratings, participant_id)
              THEN /\ session' = s
                   /\ req' = [req EXCEPT
                                ![r] = Answer("trial", s, "redirect_done")]
                   /\ UNCHANGED served
              ELSE IF ~index_in_range(idx)
              THEN /\ session' \in AfterError(s)
                   /\ req' = [req EXCEPT
                                ![r] = [Answer("trial", s, "IndexError")
                                           EXCEPT !.idx = idx]]
                   /\ UNCHANGED served
              ELSE /\ session' = s
                   /\ req' = [req EXCEPT
                                ![r] = [Answer("trial", s, "render_trial")
                                           EXCEPT !.idx = idx,
                                                  !.t = element(trials_of(s), idx)]]
                   /\ served' = [served EXCEPT ![participant_id] = @ \cup {idx}]
    /\ UNCHANGED <<ratings, demographics, genVars, seedVars, loadVars>>

\* POST /submit (app.py:407-477)
SubmitPost(r, form) ==
    /\ Arrives(r)
    /\ LET s == before_request(session)
           participant_id == s.participant_id
           idx == participant_progress(ratings, participant_id)
           q == [Answer("submit", s, "redirect_trial")
                    EXCEPT !.idx = idx, !.form = form]
       IN  /\ participant_id \in Participants
           /\ IF is_completed(ratings, participant_id)
              THEN /\ session' = s
                   /\ req' = [req EXCEPT
                                ![r] = Answer("submit", s, "redirect_done")]
                   /\ UNCHANGED ratings
              ELSE IF ~index_in_range(idx)
              THEN /\ session' \in AfterError(s)
                   /\ req' = [req EXCEPT
                                ![r] = [Answer("submit", s, "IndexError")
                                           EXCEPT !.idx = idx]]
                   /\ UNCHANGED ratings
              ELSE IF parsed[form] # "ok"
              THEN /\ session' \in (IF parsed[form] = "ValueError"
                                     THEN AfterError(s) ELSE {s})
                   /\ req' = [req EXCEPT
                                ![r] = [q EXCEPT !.t = element(trials_of(s), idx),
                                                 !.outcome = parsed[form]]]
                   /\ UNCHANGED ratings
              ELSE IF existing(ratings, participant_id, idx) # {}
              THEN /\ session' = s
                   /\ req' = [req EXCEPT
                                ![r] = [q EXCEPT !.t = element(trials_of(s), idx),
                                                 !.dup = "existing"]]
                   /\ UNCHANGED ratings
              ELSE LET t == element(trials_of(s), idx)
                       row == Rating(ratings, r, participant_id, idx, t,
                                     form_scores[form])
                   IN  /\ session' = s
                       /\ ratings' = commit(ratings, row)
                       /\ req' = [req EXCEPT
                             ![r] = [q EXCEPT
                                 !.t = t,
                                 !.wrote = IF row \in ratings'
                                           THEN row.id ELSE NoRow,
                                 !.dup = IF row \in ratings' THEN "none"
                                         ELSE "IntegrityError"]]
    /\ UNCHANGED <<served, demographics, genVars, seedVars, loadVars>>

\* GET /reset (app.py:486-493): on a local host the session is cleared, on
\* another the request is refused
Reset(r, local) ==
    /\ Arrives(r)
    /\ LET s == before_request(session)
       IN  /\ s.participant_id \in Participants
           /\ IF local
              THEN /\ session' = session_clear(s)
                   /\ req' = [req EXCEPT
                                ![r] = Answer("reset", s, "redirect_start")]
              ELSE /\ session' = s
                   /\ req' = [req EXCEPT
                                ![r] = Answer("reset", s, "abort404")]
    /\ UNCHANGED <<ratings, served, demographics, genVars, seedVars, loadVars>>

NextSession ==
    \/ \E r \in Requests : StartPage(r)
    \/ \E r \in Requests : Begin(r)
    \/ \E r \in Requests, method \in {"GET", "POST"} : Demographics(r, method)
    \/ \E r \in Requests : TrialPage(r)
    \/ \E r \in Requests, form \in Forms : SubmitPost(r, form)
    \/ \E r \in Requests, local \in BOOLEAN : Reset(r, local)

SpecSession == Init /\ [][NextSession]_vars

(***************************************************************************)
(* generate_trials and pick_video, statement by statement                  *)
(***************************************************************************)
\* the server starts with some validated catalog; no stream is recorded
InitGen ==
    /\ ratings = {}
    /\ req = [r \in Requests |-> IdleReq]
    /\ served = [p \in Participants |-> {}]
    /\ manifest \in Catalogs
    /\ flags \in Flags
    /\ frame = NoFrame
    /\ ncalls = 0
    /\ watched = NoSeed
    /\ tape = <<>>
    /\ returned = {}
    /\ LibIdle

\* the same on the example catalog, with the stream of seed 0 recorded as it
\* is drawn, under the server's flags and under their opposites
InitDet ==
    /\ ratings = {}
    /\ req = [r \in Requests |-> IdleReq]
    /\ served = [p \in Participants |-> {}]
    /\ manifest = CatalogExample
    /\ flags \in {AppFlags, [allow |-> TRUE, cb |-> FALSE]}
    /\ frame = NoFrame
    /\ ncalls = 0
    /\ watched = 0
    /\ tape = <<>>
    /\ returned = {}
    /\ LibIdle

\* generate_trials is called (app.py:188-204)
Call(n_trials, seed) ==
    /\ frame.pc = "idle"
    /\ ncalls < MaxCalls
    /\ frame' = NewFrame(manifest, n_trials, seed, flags.allow, flags.cb)
    /\ ncalls' = ncalls + 1
    /\ UNCHANGED <<manifest, flags, watched, tape, returned, appVars, libVars>>

\* app.py:207-212: set_name = rng.choice(set_names); the methods of the set
ChooseSet ==
    /\ frame.pc = "choose_set"
    /\ \E j \in Draws(Len(keys(manifest))) :
          /\ frame' = choose_set(manifest, frame, j)
          /\ tape' = Drawn(Len(keys(manifest)), j)
    /\ UNCHANGED <<manifest, flags, ncalls, watched, returned, appVars, libVars>>

\* app.py:215: one iteration of rng.sample(method_names, 2), which moves the
\* drawn entry of the pool out and the last unselected entry into its place
Sample ==
    /\ frame.pc = "sample"
    /\ \E j \in Draws(Len(frame.pool) - Len(frame.result)) :
          /\ frame' = sample(frame, j)
          /\ tape' = Drawn(Len(frame.pool) - Len(frame.result), j)
    /\ UNCHANGED <<manifest, flags, ncalls, watched, returned, appVars, libVars>>

\* app.py:253-254: pick_video with allow_repeats returns rng.choice(candidates)
PickRepeat ==
    /\ frame.pc = "pick"
    /\ frame.allow_video_repeats_within_participant
    /\ \E j \in Draws(Len(candidates(manifest, frame))) :
          /\ frame' = pick_repeat(manifest, frame, j)
          /\ tape' = Drawn(Len(candidates(manifest, frame)), j)
    /\ UNCHANGED <<manifest, flags, ncalls, watched, returned, appVars, libVars>>

\* app.py:258-259: shuffled = candidates[:], and the shuffle begins at the
\* last position (a list of one entry is not shuffled)
PickStart ==
    /\ frame.pc = "pick"
    /\ ~frame.allow_video_repeats_within_participant
    /\ frame' = pick_start(manifest, frame)
    /\ UNCHANGED <<manifest, flags, ncalls, watched, tape, returned, appVars, libVars>>

\* app.py:259: one iteration of rng.shuffle, for i from len-1 down to 1:
\* j = randbelow(i + 1); x[i], x[j] = x[j], x[i]
Shuffle ==
    /\ frame.pc = "shuffle"
    /\ \E j \in Draws(frame.i + 1) :
          /\ frame' = shuffle(frame, j)
          /\ tape' = Drawn(frame.i + 1, j)
    /\ UNCHANGED <<manifest, flags, ncalls, watched, returned, appVars, libVars>>

\* app.py:260-263: the first unused entry is registered and returned
Scan ==
    /\ frame.pc = "scan"
    /\ frame' = scan(frame)
    /\ UNCHANGED <<manifest, flags, ncalls, watched, tape, returned, appVars, libVars>>

\* app.py:265-268: all used; v = rng.choice(candidates), registered again
Fallback ==
    /\ frame.pc = "fallback"
    /\ \E j \in Draws(Len(candidates(manifest, frame))) :
          /\ frame' = fallback(manifest, frame, j)
          /\ tape' = Drawn(Len(candidates(manifest, frame)), j)
    /\ UNCHANGED <<manifest, flags, ncalls, watched, returned, appVars, libVars>>

\* app.py:233-242 with counterbalance_sides: the coin is drawn, the sides
\* are swapped when it is below 0.5, the trial is appended
Counterbalance ==
    /\ frame.pc = "append"
    /\ frame.counterbalance_sides
    /\ \E c \in Draws(0) :
          /\ frame' = counterbalance(frame, c)
          /\ tape' = Drawn(0, c)
    /\ UNCHANGED <<manifest, flags, ncalls, watched, returned, appVars, libVars>>

\* app.py:233-242 without counterbalance_sides: no draw, the trial is appended
AppendTrial ==
    /\ frame.pc = "append"
    /\ ~frame.counterbalance_sides
    /\ frame' = appended(frame)
    /\ UNCHANGED <<manifest, flags, ncalls, watched, tape, returned, appVars, libVars>>

\* what an invocation returns, with its arguments
result(f) ==
    [n_trials |-> f.n_trials, seed |-> f.seed,
     allow |-> f.allow_video_repeats_within_participant,
     cb |-> f.counterbalance_sides, trials |-> f.trials]

\* app.py:244: return trials; the frame and its locals are gone
Return ==
    /\ frame.pc = "done"
    /\ returned' = IF watched = NoSeed THEN returned
                   ELSE returned \cup {result(frame)}
    /\ frame' = NoFrame
    /\ UNCHANGED <<manifest, flags, ncalls, watched, tape, appVars, libVars>>

NextGen ==
    \/ \E n \in 1..MaxCount, seed \in Seeds : Call(n, seed)
    \/ ChooseSet
    \/ Sample
    \/ PickRepeat
    \/ PickStart
    \/ Shuffle
    \/ Scan
    \/ Fallback
    \/ Counterbalance
    \/ AppendTrial
    \/ Return

SpecGen == InitGen /\ [][NextGen]_vars

SpecDet == InitDet /\ [][NextGen]_vars

(***************************************************************************)
(* participant_seed on arbitrary identifiers                               *)
(***************************************************************************)
\* an identifier reaches the server character by character
TypeChar(c) ==
    /\ seed_out = NotCalled
    /\ Len(ident) < MaxIdLen
    /\ ident' = Append(ident, c)
    /\ UNCHANGED <<seed_out, doc, loaded, session, demographics, appVars, genVars>>

\* participant_seed(participant_id) is evaluated (app.py:322, 378, 417)
DeriveSeed ==
    /\ seed_out = NotCalled
    /\ seed_out' = participant_seed(ident)
    /\ UNCHANGED <<ident, doc, loaded, session, demographics, appVars, genVars>>

NextSeed ==
    \/ \E c \in IdChars : TypeChar(c)
    \/ DeriveSeed

SpecSeed == Init /\ [][NextSeed]_vars

(***************************************************************************)
(* load_manifest on arbitrary documents, and the generation that follows   *)
(***************************************************************************)
\* manifest.json holds some document; nothing is loaded yet
InitLoad ==
    /\ ratings = {}
    /\ req = [r \in Requests |-> IdleReq]
    /\ served = [p \in Participants |-> {}]
    /\ manifest = <<>>
    /\ flags = AppFlags
    /\ frame = NoFrame
    /\ ncalls = 0
    /\ watched = NoSeed
    /\ tape = <<>>
    /\ returned = {}
    /\ ident = <<>>
    /\ seed_out = NotCalled
    /\ doc \in Docs
    /\ loaded = "not called"
    /\ session = EmptySession
    /\ demographics = {}

\* manifest = load_manifest() (app.py:376, 416): an exception ends the request
LoadManifest ==
    /\ loaded = "not called"
    /\ loaded' = load_manifest(doc)
    /\ manifest' = IF loaded' = "ok" THEN catalog_of(doc) ELSE manifest
    /\ UNCHANGED <<flags, frame, ncalls, watched, tape, returned,
                   ident, seed_out, doc, session, demographics, appVars>>

\* trials = generate_trials(manifest, ...) (app.py:379-385, 418-424), reached
\* when load_manifest returned, once in the request
GenerateFromLoaded ==
    /\ loaded = "ok"
    /\ ncalls = 0
    /\ \E seed \in Seeds : Call(NTrials, seed)

NextLoad ==
    \/ LoadManifest
    \/ GenerateFromLoaded
    \/ ChooseSet
    \/ Sample
    \/ PickStart
    \/ Shuffle
    \/ Scan
    \/ Fallback
    \/ Counterbalance
    \/ Return

SpecLoad == InitLoad /\ [][NextLoad]_vars

(***************************************************************************)
(* Properties of the request handlers                                      *)
(***************************************************************************)
Submits == {r \in Requests : req[r].kind = "submit"}
\* the request has read its form, and the form is well-formed / is not
HasValidForm(r) == req[r].form \in Forms /\ parsed[req[r].form] = "ok"
HasInvalidForm(r) == req[r].form \in Forms /\ parsed[req[r].form] # "ok"
Done(r) == req[r].pc = "done"
Wrote(r) == req[r].wrote # NoRow

\* C1: the ratings table never holds two rows with the same
\* (participant_id, trial_index), whatever the interleaving of the requests
C1_AtMostOneRowPerTrial ==
    \A x, y \in ratings :
        (x.participant_id = y.participant_id /\ x.trial_index = y.trial_index)
            => x = y

\* two requests of one participant reached the commit for the same index and
\* the table refused the second insert
C1_Witness ==
    \E r1, r2 \in Submits :
        /\ r1 # r2 /\ req[r1].pid = req[r2].pid /\ req[r1].idx = req[r2].idx
        /\ Wrote(r1) /\ req[r2].dup = "IntegrityError"

\* two finished /submit requests of one participant that read the same
\* current index k, both with well-formed scores
Raced(r1, r2) ==
    /\ r1 # r2 /\ Done(r1) /\ Done(r2)
    /\ req[r1].kind = "submit" /\ req[r2].kind = "submit"
    /\ req[r1].pid = req[r2].pid
    /\ req[r1].idx = req[r2].idx /\ req[r1].idx \in 0..(NTrials - 1)
    /\ HasValidForm(r1) /\ HasValidForm(r2)

\* the requests that read index k for participant p
ReadersOf(p, k) == {r \in Submits : req[r].pid = p /\ req[r].idx = k}

\* C2: of the /submit requests of one participant that read the same current
\* index k, exactly one stores the Rating for k (one of the two, when only two
\* read k); each other one stores nothing and ends in the redirect to the
\* trial page; the stored row is the row its writer built
C2_RaceHasOneWinner ==
    \A r1, r2 \in Requests :
        Raced(r1, r2) =>
            LET p == req[r1].pid
                k == req[r1].idx
                writers == {r \in ReadersOf(p, k) : Wrote(r)}
            IN  /\ Cardinality(writers) = 1
                /\ ReadersOf(p, k) = {r1, r2} => writers \subseteq {r1, r2}
                /\ \A r \in {r1, r2} \ writers :
                       req[r].outcome = "redirect_trial"
                /\ \A w \in writers :
                       \A x \in existing(ratings, p, k) :
                           /\ x.id = req[w].wrote
                           /\ x.scores = form_scores[req[w].form]
                           /\ x.by = w

\* a race that went as far as the commit: the loser's insert was refused, and
\* the two forms differ
C2_Witness ==
    \E r1, r2 \in Requests :
        /\ Raced(r1, r2)
        /\ Wrote(r1) /\ req[r2].dup = "IntegrityError"
        /\ req[r1].form # req[r2].form

\* C3: a form filled in on the page of trial index k that arrives when the
\* Rating for (participant, k) is already stored writes no row at all
C3_ReplayIsDiscarded ==
    \A r \in Submits : req[r].late => ~Wrote(r)

\* C4: no step lowers any participant's progress, and a participant that is
\* completed stays completed
C4_ProgressNeverDecreases ==
    [][\A p \in Participants :
          /\ participant_progress(ratings', p) >= participant_progress(ratings, p)
          /\ is_completed(ratings, p) => is_completed(ratings', p)]_vars

\* a participant reached completion although one of its inserts was refused
\* and rolled back on the way
C4_Witness ==
    \E r \in Submits :
        /\ is_completed(ratings, req[r].pid)
        /\ req[r].dup = "IntegrityError"

\* C5: every stored row has trial_index in 0..NTrials-1
C5_IndexBelowN ==
    \A x \in ratings : x.trial_index \in 0..(NTrials - 1)

\* a /submit request passed the gate, then read index NTrials because another
\* request stored the last Rating in between, and stored nothing
C5_Witness ==
    \E r \in Submits :
        /\ Done(r) /\ req[r].idx = NTrials /\ ~Wrote(r)
        /\ req[r].outcome = "IndexError"
        /\ participant_progress(ratings, req[r].pid) = NTrials

\* C6: a /submit request whose scores are not all present integers in 0..5,
\* once it has parsed them, has failed with the validation error (abort 400)
\* and has written nothing
C6_InvalidScoresRejected ==
    \A r \in Submits :
        (Done(r) /\ HasInvalidForm(r)) =>
            req[r].outcome = "abort400" /\ ~Wrote(r)

\* C6, the part about the store: a request with such scores never writes
C6_InvalidScoresWriteNothing ==
    \A r \in Submits : HasInvalidForm(r) => Done(r) /\ ~Wrote(r)

(***************************************************************************)
(* Properties of the generator                                             *)
(***************************************************************************)
Running == frame.pc # "idle"
methods_of(set_name) == get(manifest, set_name)
clips(set_name, m) == Range(get(methods_of(set_name), m))

\* the results returned so far and the one about to be returned
Results ==
    returned \cup (IF frame.pc = "done" THEN {result(frame)} ELSE {})

\* C7: two invocations of generate_trials with the same catalog, seed, count
\* and flags return the same list of trials, whatever invocations ran before
\* or between them
C7_SameArgumentsSameTrials ==
    \A a, b \in Results :
        (/\ a.seed = b.seed /\ a.n_trials = b.n_trials
         /\ a.allow = b.allow /\ a.cb = b.cb)
        => a.trials = b.trials

\* the third invocation is about to return MaxCount trials; the two before
\* it were one with the same arguments and one with another participant's
\* seed
C7_Witness ==
    /\ frame.pc = "done" /\ ncalls = 3
    /\ frame.seed = watched /\ frame.n_trials = MaxCount
    /\ ~flags.allow /\ flags.cb
    /\ Cardinality(returned) = 2
    /\ \E a, b \in returned :
          /\ a.seed = watched /\ a.n_trials = MaxCount
          /\ b.seed # watched /\ b.n_trials = MaxCount

\* C8: in every trial generated so far the set is a set of the catalog, both
\* methods are methods of that set, and the two methods differ
C8_TrialsAreValid ==
    Running =>
        \A k \in DOMAIN frame.trials :
            LET tr == frame.trials[k]
            IN  /\ tr.set \in Range(keys(manifest))
                /\ tr.left.method \in Range(keys(methods_of(tr.set)))
                /\ tr.right.method \in Range(keys(methods_of(tr.set)))
                /\ tr.left.method # tr.right.method

\* a finished counterbalanced sequence over two different sets, one of them
\* with three methods
C8_Witness ==
    /\ frame.pc = "done" /\ frame.counterbalance_sides
    /\ Len(frame.trials) = 2
    /\ frame.trials[1].set # frame.trials[2].set
    /\ \E k \in 1..2 : Len(methods_of(frame.trials[k].set)) = 3

\* the clips picked, for any method, before pick number k of the sequence
used_before(k) == {frame.picks[l].video : l \in 1..(k - 1)}

\* pick number k repeats a clip for its method
Repeats(k) ==
    \E l \in 1..(k - 1) :
        /\ frame.picks[l].method = frame.picks[k].method
        /\ frame.picks[l].set = frame.picks[k].set
        /\ frame.picks[l].video = frame.picks[k].video

\* C9: without repeats allowed, when a pick repeats a clip for a method that
\* has at least n_trials distinct clips, every clip of that method has been
\* used by an earlier pick of the sequence
C9_RepeatOnlyWhenAllUsed ==
    (Running /\ ~frame.allow_video_repeats_within_participant) =>
        \A k \in DOMAIN frame.picks :
            LET pk == frame.picks[k]
            IN  (/\ Repeats(k)
                 /\ Cardinality(clips(pk.set, pk.method)) >= frame.n_trials)
                => clips(pk.set, pk.method) \subseteq used_before(k)

\* a method with n_trials clips got the same clip twice, its clips having
\* been used up through the other method that lists them
C9_Witness ==
    /\ Running /\ ~frame.allow_video_repeats_within_participant
    /\ \E k \in DOMAIN frame.picks :
          /\ Repeats(k)
          /\ Cardinality(clips(frame.picks[k].set, frame.picks[k].method))
                >= frame.n_trials

\* C10: no invocation ends in an error; every pick, the picks from an
\* exhausted pool included, returns one of its candidates; the trials carry
\* the indexes 0, 1, ... in order, and a finished invocation has n_trials
\* of them
C10_ExhaustionIsNoError ==
    Running =>
        /\ frame.pc # "ValueError"
        /\ \A k \in DOMAIN frame.picks :
              frame.picks[k].video
                  \in clips(frame.picks[k].set, frame.picks[k].method)
        /\ \A k \in DOMAIN frame.trials : frame.trials[k].trial_index = k - 1
        /\ frame.pc = "done" => Len(frame.trials) = frame.n_trials

\* a finished invocation that asked for more trials than the single-clip
\* method has clips and picked from its exhausted pool
C10_Witness ==
    /\ frame.pc = "done" /\ frame.n_trials = MaxCount
    /\ \E k \in DOMAIN frame.picks :
          /\ frame.picks[k].exhausted
          /\ Cardinality(clips(frame.picks[k].set, frame.picks[k].method)) = 1

\* the trial indexes stored for participant p
indexes(p) == {x.trial_index : x \in {y \in ratings : y.participant_id = p}}

\* C15: the trial indexes stored for a participant are exactly
\* 0 .. progress-1, so the row count is the smallest index without a Rating
C15_IndexesAreContiguous ==
    \A p \in Participants :
        indexes(p) = 0..(participant_progress(ratings, p) - 1)

\* a participant has two Ratings although one of its requests, which had
\* read an index that was stored meanwhile, was turned away by the existence
\* check
C15_Witness ==
    \E r \in Submits :
        /\ req[r].dup = "existing"
        /\ participant_progress(ratings, req[r].pid) >= 2

\* C14: the index a /trial or /submit request reads after it passed the
\* completion gate is below N
C14_IndexReadIsInRange ==
    \A r \in Requests : req[r].idx # NoIdx => req[r].idx < NTrials

\* C13: the done page is served to a participant only when the participant
\* is completed (progress never decreases, so a participant that is not
\* completed now was not when the page was served)
C13_DoneOnlyWhenCompleted ==
    \A r \in Requests :
        req[r].outcome = "render_done" => is_completed(ratings, req[r].pid)

\* C13, the other pages: the step that serves a trial page or the
\* demographics page is taken while the participant's progress is below N
C13_StudyPagesOnlyBelowN ==
    [][\A r \in Requests :
          (/\ req[r].outcome = "none"
           /\ req'[r].outcome \in {"render_trial", "render_demographics"})
              => ~is_completed(ratings, req[r].pid)]_vars

(***************************************************************************)
(* Properties of participant_seed                                          *)
(***************************************************************************)
\* the identifier has 8 characters or more and its first 8 are hexadecimal
\* digits
Conforming(participant_id) ==
    /\ Len(participant_id) >= 8
    /\ \A i \in 1..8 : participant_id[i] \in DOMAIN HexDigits

\* C11: participant_seed fails for every identifier that is shorter than 8
\* characters or whose first 8 characters are not all hexadecimal digits
C11_MalformedIdentifierFails ==
    (seed_out # NotCalled /\ ~Conforming(ident))
        => seed_out.raised = "ValueError"

\* C11, the range: a seed that is returned lies in 0 .. 16^8 - 1, that is,
\* it is not negative and has at most 8 hexadecimal digits
C11_SeedInRange ==
    seed_out.raised = "none"
        => seed_out.value >= 0 /\ seed_out.value \div (16 * 16 * 16 * 16) < 16 * 16 * 16 * 16

\* C11 on conforming identifiers, where the code agrees with it: a seed is
\* returned, and it is in range
C11_ConformingIdentifierHasSeed ==
    (seed_out # NotCalled /\ Conforming(ident))
        => seed_out.raised = "none" /\ seed_out.value >= 0

(***************************************************************************)
(* Properties of load_manifest                                             *)
(***************************************************************************)
\* the document is a dict of at least one set, every set a dict of at least
\* two methods, every method a non-empty list, every listed clip a file
ValidDoc(d) ==
    /\ d.type = "dict" /\ Len(d.items) >= 1
    /\ \A i \in DOMAIN d.items :
          LET methods == d.items[i][2]
          IN  /\ methods.type = "dict" /\ Len(methods.items) >= 2
              /\ \A j \in DOMAIN methods.items :
                    LET vids == methods.items[j][2]
                    IN  /\ vids.type = "list" /\ Len(vids.items) >= 1
                        /\ \A k \in DOMAIN vids.items :
                              vids.items[k] \in FilesPresent

\* C12: load_manifest returns exactly when the document is valid, and then
\* it returns the whole document; when it fails no catalog is in hand and no
\* trial is generated
C12_OnlyValidCatalogsLoad ==
    /\ loaded # "not called" => (loaded = "ok" <=> ValidDoc(doc))
    /\ loaded = "ok" => manifest = catalog_of(doc)
    /\ loaded # "ok" => manifest = <<>> /\ frame = NoFrame /\ ncalls = 0

\* the first set is valid and the call failed on a clip of the second set
\* that is not a file
C12_Witness ==
    /\ loaded = "FileNotFoundError"
    /\ Len(doc.items) = 2
    /\ ValidDoc(JDict(<<doc.items[1]>>))

(***************************************************************************)
(* Properties of the stored trial and of the session                       *)
(***************************************************************************)
\* element k of generate_trials(catalog, N, participant_seed(p))
trial_of(p, k) ==
    generate_trials(manifest, NTrials,
                    participant_seed(uuid4_hex(p)).value, FALSE, TRUE)[k + 1]

\* the row records the set, the methods, the clips and the labels of trial t
Records(x, t) ==
    /\ x.set_name = t.set
    /\ x.method_a = t.left.method /\ x.method_b = t.right.method
    /\ x.video_a = t.left.video /\ x.video_b = t.right.video
    /\ x.left_label = t.left.label /\ x.right_label = t.right.label

\* C16: every stored row for (p, k) records element k of
\* generate_trials(catalog, N, participant_seed(p)), and every trial page
\* rendered to p at progress k shows that element
C16_RowRecordsGeneratedTrial ==
    /\ \A x \in ratings :
           Records(x, trial_of(x.participant_id, x.trial_index))
    /\ \A r \in Requests :
           req[r].outcome = "render_trial" =>
               req[r].t = trial_of(req[r].pid, req[r].idx)

\* a participant whose session got its seed from /begin was served the
\* trial page of index k and then stored the row for k
C16_Witness ==
    \E x \in ratings, b, r \in Requests :
        /\ req[b].kind = "begin" /\ req[b].outcome = "redirect_demographics"
        /\ req[b].pid = x.participant_id
        /\ b < r /\ r < x.by
        /\ req[r].outcome = "render_trial"
        /\ req[r].pid = x.participant_id /\ req[r].idx = x.trial_index

\* C19: a seed held by the session is participant_seed of the
\* participant_id held by the session
C19_SessionSeedMatchesId ==
    session.seed # NoSeed =>
        /\ session.participant_id # NoId
        /\ session.seed = participant_seed(uuid4_hex(session.participant_id)).value

\* the session was reset after /begin stored the seed of the first
\* participant, and /begin then stored a seed for the second
C19_Witness ==
    /\ session.participant_id = 2
    /\ session.seed # NoSeed
    /\ \E r1, r2, r3 \in Requests :
          /\ r1 < r2 /\ r2 < r3
          /\ req[r1].kind = "begin" /\ req[r1].pid = 1
          /\ req[r1].outcome # "redirect_done"
          /\ req[r2].kind = "reset" /\ req[r2].outcome = "redirect_start"
          /\ req[r3].kind = "begin" /\ req[r3].pid = 2

(***************************************************************************)
(* Counterbalancing                                                        *)
(***************************************************************************)
\* the (method, clip) pair of a pick and of a side of a trial
Picked(pk) == <<pk.method, pk.video>>
Shown(side) == <<side.method, side.video>>

\* the swap of app.py:233-235 fired for trial number k: its left side shows
\* what the pick for the right side returned
Swapped(k) ==
    /\ Shown(frame.trials[k].left) = Picked(frame.picks[2 * k])
    /\ Shown(frame.trials[k].left) # Picked(frame.picks[2 * k - 1])

\* C17: in every generated trial left.label is "A" and right.label is "B",
\* each side's clip is a clip of that side's method in the trial's set, and
\* the two sides show the two (method, clip) pairs that were picked
C17_SwapMovesMethodAndClip ==
    Running =>
        \A k \in DOMAIN frame.trials :
            LET tr == frame.trials[k]
            IN  /\ tr.left.label = "A" /\ tr.right.label = "B"
                /\ tr.left.video \in clips(tr.set, tr.left.method)
                /\ tr.right.video \in clips(tr.set, tr.right.method)
                /\ {Shown(tr.left), Shown(tr.right)} =
                       {Picked(frame.picks[2 * k - 1]),
                        Picked(frame.picks[2 * k])}

\* a finished counterbalanced sequence on the example catalog, whose methods
\* share no clip, with one trial swapped and one not
C17_Witness ==
    /\ frame.pc = "done" /\ frame.counterbalance_sides
    /\ manifest = CatalogExample
    /\ Len(frame.trials) = 2
    /\ \E k, l \in 1..2 : Swapped(k) /\ ~Swapped(l)

(***************************************************************************)
(* Participants do not affect each other                                   *)
(***************************************************************************)
\* the rows of participant q
rows_of(rows, q) == {x \in rows : x.participant_id = q}

\* C18: a step of a request made under participant p's identifier leaves
\* the rows of every other participant q as they were, and with them q's
\* progress and completion
C18_OtherParticipantsUntouched ==
    [][\A r \in Requests :
          req'[r] # req[r] =>
              \A q \in Participants \ {req'[r].pid} :
                  /\ rows_of(ratings', q) = rows_of(ratings, q)
                  /\ participant_progress(ratings', q)
                         = participant_progress(ratings, q)
                  /\ is_completed(ratings', q) = is_completed(ratings, q)]_vars

\* q has a row stored, and p made a request that was accepted and one that
\* was turned away (by validation, as a duplicate, or by an exception)
C18_Witness ==
    \E x \in ratings, r1, r2 \in Submits :
        /\ req[r1].pid # x.participant_id /\ req[r2].pid = req[r1].pid
        /\ Wrote(r1)
        /\ Done(r2) /\ ~Wrote(r2) /\ req[r2].outcome # "redirect_done"

(***************************************************************************)
(* Progress                                                                *)
(***************************************************************************)
\* C20: the participant who keeps submitting well-formed forms is eventually
\* completed, whatever duplicated, racing, rejected or failing requests
\* happen on the way
C20_EventuallyCompleted == <>is_completed(ratings, 1)

\* participant 1 is completed although one of its requests lost a race at
\* the commit or failed on the index and another was rejected by validation
C20_Witness ==
    /\ is_completed(ratings, 1)
    /\ \E r \in Live :
          /\ req[r].pid = 1 /\ req[r].kind = "submit"
          /\ req[r].dup = "IntegrityError" \/ req[r].outcome = "IndexError"

\* the demographics rows stored for participant p
demographics_of(rows, p) == {x \in rows : x.participant_id = p}

\* C21: a POST to /demographics from a participant who has not completed the
\* study and already has a demographics row is answered with the redirect to
\* the trial page and leaves exactly one demographics row of that participant
C21_RepeatedPostRedirects ==
    [][\A r \in Requests :
          ( /\ req[r].kind = "demographics_POST"
            /\ req[r].pc = "answered"
            /\ req'[r].pc = "done"
            /\ has_demographics(demographics, req[r].pid) )
          => /\ req'[r].outcome = "redirect_trial"
             /\ Cardinality(demographics_of(demographics', req[r].pid)) = 1]_vars

\* C21, the store: no two demographics rows have the same participant_id
C21_AtMostOneDemographicsRow ==
    \A p \in Participants : Cardinality(demographics_of(demographics, p)) <= 1

\* C21: a participant who had a demographics row posted the form again, and
\* the handler has answered
C21_Witness ==
    \E r \in Requests :
        /\ req[r].kind = "demographics_POST"
        /\ req[r].pc = "done"
        /\ req[r].outcome # "redirect_done"
        /\ \E x \in demographics_of(demographics, req[r].pid) : x.by # r
====
